---------------------------- MODULE Spec2Model ----------------------------
(***************************************************************************)
(* A model of interestingness_xdrl/analysis/__init__.py: the AnalysisBase  *)
(* object (data, config, img_fmt), its save / load / _get_mp_pool methods  *)
(* and its report helpers _plot_elements_sp and _save_time_dataset_csv.    *)
(*                                                                         *)
(* Spec        drives save, load and _get_mp_pool on one analysis object   *)
(*             whose configuration object is shared with a sibling.        *)
(* SpecReport  drives _plot_elements_sp and _save_time_dataset_csv.        *)
(* SpecVideo   drives fade_video of interestingness_xdrl/util/video.py.    *)
(***************************************************************************)
EXTENDS Integers, Sequences, FiniteSets, TLC

VARIABLES
    self,          \* the analysis object: [cls, data, img_fmt]
    config,        \* the AnalysisConfiguration object self.config refers to
    cpu_count,     \* the host's detected core count (mp.cpu_count())
    pc,            \* position inside the method being executed, or "idle"
    op,            \* the method called last
    err,           \* the exception the last call raised, or "none"
    sv_data,       \* save's local variable `data`
    file,          \* the archive at file_path
    loaded,        \* the value returned by the last load
    pool,          \* the value returned by the last _get_mp_pool
    series,        \* the derived series the caller passes as `data` / `element_data`
    high_limit,    \* the high_limit the caller passes
    low_limit,     \* the low_limit the caller passes
    eps_per_plot,  \* the eps_per_plot the caller passes
    eps_data,      \* _plot_elements_sp local: the per-episode sub-series
    ep_idx,        \* _plot_elements_sp local: position in plot_ep_splits
    figures,       \* the figures saved by plt.savefig, in order
    csv_file,      \* the table written by df.to_csv
    buffer,        \* fade_video argument: the frames
    fade_ratio,    \* fade_video argument, as the numerator of a fraction of RatioDen
    fade_in,       \* fade_video argument
    fade_out,      \* fade_video argument
    fade_t,        \* fade_video local: the loop index t
    faded_buffer   \* fade_video local and result

vars == <<self, config, cpu_count, pc, op, err, sv_data, file, loaded, pool,
          series, high_limit, low_limit, eps_per_plot, eps_data, ep_idx,
          figures, csv_file, buffer, fade_ratio, fade_in, fade_out, fade_t,
          faded_buffer>>

objVars == <<sv_data, file, loaded, pool>>
argVars == <<series, high_limit, low_limit, eps_per_plot>>
locVars == <<eps_data, ep_idx, figures, csv_file>>
repVars == <<argVars, locVars>>
vidVars == <<buffer, fade_ratio, fade_in, fade_out, fade_t, faded_buffer>>

----------------------------------------------------------------------------
(* Bounds of the model *)

MaxLen == 4        \* longest record sequence enumerated
MaxProcs == 2      \* largest configured num_processes
MaxCpu == 2        \* largest host core count
MaxBatch == 3      \* largest eps_per_plot
MaxFrames == 4     \* longest frame buffer
RatioDen == 4      \* fade_ratio ranges over 0/RatioDen .. RatioDen/RatioDen

----------------------------------------------------------------------------
(* Python values *)

\* Python's None and a present value, kept apart from the value itself.
None == [some |-> FALSE, val |-> <<>>]
Some(x) == [some |-> TRUE, val |-> x]

\* A float that is either NaN or a number.
NaN == [nan |-> TRUE, num |-> 0]
Num(v) == [nan |-> FALSE, num |-> v]

\* np.isnan
isnan(f) == f.nan

Min(a, b) == IF a < b THEN a ELSE b

\* Sequences over S of length at most n.
SeqsUpTo(S, n) == UNION {[1..k -> S] : k \in 0..n}

\* The new_episode markers of the 12-record scenario.
Scenario12 == <<FALSE, TRUE, FALSE, FALSE, TRUE, FALSE, FALSE, FALSE,
                TRUE, FALSE, FALSE, FALSE>>

\* A record sequence is modelled by its records' new_episode markers.
RecordSeqs == SeqsUpTo(BOOLEAN, MaxLen) \cup {Scenario12}

Classes == {"AnalysisA", "AnalysisB"}
Formats == {"png", "pdf"}
Analyses == {"A", "B"}

----------------------------------------------------------------------------
(* AnalysisBase.__init__ *)

Constructed(cls, data, analysis_config, img_fmt) ==
    /\ self = [cls |-> cls, data |-> Some(data), img_fmt |-> img_fmt]
    /\ config = analysis_config

\* No call of fade_video has been made.
NoVideo ==
    /\ buffer = <<>>
    /\ fade_ratio = 0
    /\ fade_in = FALSE
    /\ fade_out = FALSE
    /\ fade_t = 0
    /\ faded_buffer = <<>>

\* The state no method has touched yet.
Untouched ==
    /\ pc = "idle"
    /\ op = "none"
    /\ err = "none"
    /\ sv_data = None
    /\ file = [exists |-> FALSE, bytes |-> <<>>]
    /\ loaded = None
    /\ pool = None
    /\ eps_data = <<>>
    /\ ep_idx = 0
    /\ figures = <<>>
    /\ csv_file = None

Init ==
    /\ \E cls \in Classes, data \in RecordSeqs, n \in -1..MaxProcs,
          fmt \in Formats :
          Constructed(cls, data, [num_processes |-> n], fmt)
    /\ cpu_count \in 1..MaxCpu
    /\ series = <<>>
    /\ high_limit = NaN
    /\ low_limit = NaN
    /\ eps_per_plot = 1
    /\ NoVideo
    /\ Untouched

----------------------------------------------------------------------------
(* pickle / gzip: the archive is the object's class and attribute entries, *)
(* in order; a stream cut short does not decode.                           *)

\* What pickle.dump(self, ...) sees: self.__dict__, self.config by value.
SelfObj == [cls |-> self.cls, data |-> self.data, config |-> config,
            img_fmt |-> self.img_fmt]

pickle_dump(obj) ==
    << <<"class", obj.cls>>, <<"data", obj.data>>, <<"config", obj.config>>,
       <<"img_fmt", obj.img_fmt>> >>

ArchiveLen == Len(pickle_dump(SelfObj))

\* pickle.load: the decoded object, or None when the stream is cut short.
pickle_load(bytes) ==
    IF Len(bytes) < ArchiveLen
    THEN None
    ELSE Some([cls |-> bytes[1][2], data |-> bytes[2][2],
               config |-> bytes[3][2], img_fmt |-> bytes[4][2]])

----------------------------------------------------------------------------
(* AnalysisBase.save *)

\* Mutant of SaveDetach: the raw records are not detached before encoding.
SaveDetachKeepsData ==
    /\ pc = "idle"
    /\ sv_data' = self.data
    /\ pc' = "save_open"
    /\ op' = "save"
    /\ err' = "none"
    /\ UNCHANGED <<vidVars, self, config, cpu_count, file, loaded, pool, repVars>>

\* data = self.data; self.data = None
SaveDetach ==
    /\ pc = "idle"
    /\ sv_data' = self.data
    /\ self' = [self EXCEPT !.data = None]
    /\ pc' = "save_open"
    /\ op' = "save"
    /\ err' = "none"
    /\ UNCHANGED <<vidVars, config, cpu_count, file, loaded, pool, repVars>>

\* gzip.open(file_path, 'wb'): creates or truncates the file, or raises.
SaveOpen ==
    /\ pc = "save_open"
    /\ \/ /\ file' = [exists |-> TRUE, bytes |-> <<>>]
          /\ pc' = "save_dump"
          /\ err' = err
       \/ /\ err' = "OSError"
          /\ pc' = "idle"
          /\ file' = file
    /\ UNCHANGED <<vidVars, self, config, cpu_count, op, sv_data, loaded, pool, repVars>>

\* pickle.dump(self, file, ...): writes the archive, or raises part-way and
\* the with-block closes the file on the way out.
SaveDump ==
    /\ pc = "save_dump"
    /\ \/ /\ file' = [file EXCEPT !.bytes = pickle_dump(SelfObj)]
          /\ pc' = "save_restore"
          /\ err' = err
       \/ \E k \in 0..(ArchiveLen - 1) :
             /\ file' = [file EXCEPT !.bytes = SubSeq(pickle_dump(SelfObj), 1, k)]
             /\ err' = "PicklingError"
             /\ pc' = "idle"
    /\ UNCHANGED <<vidVars, self, config, cpu_count, op, sv_data, loaded, pool, repVars>>

\* self.data = data
SaveRestore ==
    /\ pc = "save_restore"
    /\ self' = [self EXCEPT !.data = sv_data]
    /\ pc' = "idle"
    /\ UNCHANGED <<vidVars, config, cpu_count, op, err, sv_data, file, loaded, pool,
                   repVars>>

----------------------------------------------------------------------------
(* AnalysisBase.load *)

\* The outcome of load on an archive: [err, value].
load(f) ==
    IF ~f.exists THEN [err |-> "FileNotFoundError", value |-> None]
    ELSE IF ~pickle_load(f.bytes).some THEN [err |-> "EOFError", value |-> None]
    ELSE [err |-> "none", value |-> pickle_load(f.bytes)]

Load ==
    /\ pc = "idle"
    /\ op' = "load"
    /\ err' = load(file).err
    /\ loaded' = load(file).value
    /\ UNCHANGED <<vidVars, self, config, cpu_count, pc, sv_data, file, pool, repVars>>

----------------------------------------------------------------------------
(* AnalysisBase._get_mp_pool *)

\* mp.Pool(processes): None means the host's core count.
mp_Pool(processes) == IF processes.some THEN processes.val ELSE cpu_count

\* The configuration as line 114 leaves it.
OverrideNumProcesses(c) == [c EXCEPT !.num_processes = -1]

\* The argument of mp.Pool at line 115, read from the configuration c.
PoolArg(c) == IF c.num_processes > 1 THEN Some(c.num_processes) ELSE None

\* Called on analysis a; both analyses hold the same configuration object.
get_mp_pool(a) ==
    /\ pc = "idle"
    /\ config' = OverrideNumProcesses(config)
    /\ pool' = Some([owner |-> a, processes |-> mp_Pool(PoolArg(config'))])
    /\ op' = "get_mp_pool"
    /\ err' = "none"
    /\ UNCHANGED <<vidVars, self, cpu_count, pc, sv_data, file, loaded, repVars>>

----------------------------------------------------------------------------
(* numpy and list helpers used by the report methods *)

\* The values a derived series takes, and the limits a caller passes: none
\* (NaN), or the middle value, which some points miss, tie with and pass.
Values == {0, 1, 2}
Limits == {NaN, Num(1)}

\* The series a caller passes along with a record sequence of length n: every
\* series over Values for the enumerated lengths, one fixed series beyond.
SeriesOf(n) ==
    IF n <= MaxLen THEN [1..n -> Values] ELSE {[t \in 1..n |-> (t - 1) % 3]}

\* [datapoint.new_episode for datapoint in self.data]
new_episodes == self.data.val

\* np.where(flags)[0].tolist(): the 0-based positions holding True, ascending.
RECURSIVE np_where_from(_, _)
np_where_from(flags, t) ==
    IF t >= Len(flags) THEN <<>>
    ELSE (IF flags[t + 1] THEN <<t>> ELSE <<>>) \o np_where_from(flags, t + 1)

np_where(flags) == np_where_from(flags, 0)

\* x in l
Contains(l, x) == \E i \in 1..Len(l) : l[i] = x

\* l.remove(x) for a list holding x: the first occurrence is dropped.
list_remove(l, x) ==
    LET i == CHOOSE j \in 1..Len(l) : l[j] = x /\ \A k \in 1..(j - 1) : l[k] # x
    IN  SubSeq(l, 1, i - 1) \o SubSeq(l, i + 1, Len(l))

\* a[i:j]
Slice(a, i, j) == SubSeq(a, i + 1, Min(j, Len(a)))

\* np.split(ary, indices): ary[:i0], ary[i0:i1], ..., ary[ik:]
np_split(ary, indices) ==
    [i \in 1..(Len(indices) + 1) |->
        Slice(ary,
              IF i = 1 THEN 0 ELSE indices[i - 1],
              IF i = Len(indices) + 1 THEN Len(ary) ELSE indices[i])]

RECURSIVE SumSeq(_)
SumSeq(s) == IF s = <<>> THEN 0 ELSE Head(s) + SumSeq(Tail(s))

\* np.mean as the pair (sum, count)
np_mean(d) == <<SumSeq(d), Len(d)>>

----------------------------------------------------------------------------
(* AnalysisBase._plot_elements_sp *)

\* Mutant of ge: the tie at the limit is left out.
gt(x, limit) == ~limit.nan /\ x > limit.num

\* x >= limit and x <= limit on floats: a comparison with NaN is False.
ge(x, limit) == ~limit.nan /\ x >= limit.num
le(x, limit) == ~limit.nan /\ x <= limit.num

\* [[t, ep_data[t]] for t in range(len(ep_data)) if ep_data[t] >= high_limit]
RECURSIVE highs_from(_, _, _)
highs_from(ep_data, limit, t) ==
    IF t >= Len(ep_data) THEN <<>>
    ELSE (IF ge(ep_data[t + 1], limit) THEN << <<t, ep_data[t + 1]>> >> ELSE <<>>)
         \o highs_from(ep_data, limit, t + 1)

RECURSIVE lows_from(_, _, _)
lows_from(ep_data, limit, t) ==
    IF t >= Len(ep_data) THEN <<>>
    ELSE (IF le(ep_data[t + 1], limit) THEN << <<t, ep_data[t + 1]>> >> ELSE <<>>)
         \o lows_from(ep_data, limit, t + 1)

\* np.array(pairs).shape: (0,) for no pair, (k, 2) for k pairs.
np_shape(pairs) == IF pairs = <<>> THEN <<0>> ELSE <<Len(pairs), 2>>

\* ax.scatter is called only for a 2-dimensional array.
Scatter(pairs) == IF Len(np_shape(pairs)) = 2 THEN pairs ELSE <<>>

\* One sub-panel (lines 171-191): the data line, the axhline calls in order
\* and the two scatter calls.
Panel(ep_data, d, hl, ll) ==
    [ep_data |-> ep_data,
     hlines  |-> (IF ~isnan(hl) THEN << <<"high", hl.num, 1>> >> ELSE <<>>)
                 \o (IF ~isnan(ll) THEN << <<"low", ll.num, 1>> >> ELSE <<>>)
                 \o << <<"mean", np_mean(d)[1], np_mean(d)[2]>> >>,
     highs   |-> Scatter(highs_from(ep_data, hl, 0)),
     lows    |-> Scatter(lows_from(ep_data, ll, 0)),
     xlim    |-> <<0, Len(ep_data)>>]

\* plt.subplots(1, ncols) squeezes its result: an array of Axes for
\* ncols > 1, a single Axes object, which cannot be iterated, for ncols = 1.
SubplotsIterable(ncols) == ncols > 1

\* eps_data[ep_idx:min(ep_idx + eps_per_plot, len(eps_data))]
plot_eps_data == Slice(eps_data, ep_idx, Min(ep_idx + eps_per_plot, Len(eps_data)))

\* Lines 154-160: the call and the split into episodes.  ep_breaks.remove(0)
\* raises ValueError when 0 is not among the breaks.
plot_elements_sp(d, hl, ll, b) ==
    /\ pc = "idle"
    /\ self.data.some
    /\ Len(d) = Len(new_episodes)
    /\ op' = "plot"
    /\ ep_idx' = 0
    /\ figures' = <<>>
    /\ csv_file' = None
    /\ LET ep_breaks == np_where(new_episodes)
       IN  IF Contains(ep_breaks, 0)
           THEN /\ eps_data' = np_split(d, list_remove(ep_breaks, 0))
                /\ pc' = "plot_loop"
                /\ err' = "none"
           ELSE /\ eps_data' = <<>>
                /\ pc' = "idle"
                /\ err' = "ValueError"
    /\ UNCHANGED <<vidVars, self, config, cpu_count, objVars, argVars>>

\* Lines 161-203: one figure.  Iterating a single Axes raises TypeError
\* before anything is drawn or saved.
PlotFigure ==
    /\ pc = "plot_loop"
    /\ ep_idx < Len(eps_data)
    /\ IF SubplotsIterable(Len(plot_eps_data))
       THEN /\ figures' = Append(figures,
                    [ep \in 1..Len(plot_eps_data) |->
                        Panel(plot_eps_data[ep], series, high_limit, low_limit)])
            /\ ep_idx' = ep_idx + eps_per_plot
            /\ pc' = pc
            /\ err' = err
       ELSE /\ err' = "TypeError"
            /\ pc' = "idle"
            /\ UNCHANGED <<vidVars, figures, ep_idx>>
    /\ UNCHANGED <<vidVars, self, config, cpu_count, op, objVars, argVars, eps_data,
                   csv_file>>

\* plot_ep_splits is exhausted: the method returns.
PlotReturn ==
    /\ pc = "plot_loop"
    /\ ep_idx >= Len(eps_data)
    /\ pc' = "idle"
    /\ UNCHANGED <<vidVars, self, config, cpu_count, op, err, objVars, repVars>>

----------------------------------------------------------------------------
(* AnalysisBase._save_time_dataset_csv *)

\* Mutant of NewEpisodeRow: the first step is not forced to open an episode.
NewEpisodeRowMarkerOnly(flag, ep) == flag

\* Line 227: datapoint.new_episode or ep == -1
NewEpisodeRow(flag, ep) == flag \/ ep = -1

\* Lines 226-233: the loop from record t on, with the counters ep and ep_t.
RECURSIVE csv_rows(_, _, _, _)
csv_rows(element_data, t, ep, ep_t) ==
    IF t >= Len(new_episodes) THEN <<>>
    ELSE LET new  == NewEpisodeRow(new_episodes[t + 1], ep)
             ep1  == IF new THEN ep + 1 ELSE ep
             ept1 == IF new THEN 0 ELSE ep_t
         IN  << [Episode |-> ep1, Timestep |-> ept1,
                 value |-> element_data[t + 1]] >>
             \o csv_rows(element_data, t + 1, ep1, ept1 + 1)

\* The whole method: the table is built and written with its header.
save_time_dataset_csv(element_data, dimension) ==
    /\ pc = "idle"
    /\ self.data.some
    /\ Len(element_data) = Len(new_episodes)
    /\ op' = "csv"
    /\ err' = "none"
    /\ csv_file' = Some([header |-> <<"Episode", "Timestep", dimension>>,
                         rows |-> csv_rows(element_data, 0, -1, 0)])
    /\ eps_data' = <<>>
    /\ ep_idx' = 0
    /\ figures' = <<>>
    /\ UNCHANGED <<vidVars, self, config, cpu_count, pc, objVars, argVars>>

----------------------------------------------------------------------------

Next ==
    \/ SaveDetach
    \/ SaveOpen
    \/ SaveDump
    \/ SaveRestore
    \/ Load
    \/ \E a \in Analyses : get_mp_pool(a)

Spec == Init /\ [][Next]_vars

InitReport ==
    /\ \E data \in RecordSeqs :
          Constructed("AnalysisA", data, [num_processes |-> 1], "png")
    /\ cpu_count = 1
    /\ series \in SeriesOf(Len(new_episodes))
    /\ high_limit \in Limits
    /\ low_limit \in Limits
    /\ eps_per_plot \in 1..MaxBatch
    /\ NoVideo
    /\ Untouched

\* The caller passes the same series and limits to both report helpers.
NextReport ==
    \/ plot_elements_sp(series, high_limit, low_limit, eps_per_plot)
    \/ PlotFigure
    \/ PlotReturn
    \/ save_time_dataset_csv(series, "dimension")

SpecReport == InitReport /\ [][NextReport]_vars


----------------------------------------------------------------------------
(* util/video.py: fade_video *)

\* A frame as returned: passed through unchanged, or the result of
\* fade_image(frame, num / den).
Unfaded(frame) == [frame |-> frame, faded |-> FALSE, num |-> 0, den |-> 1]
fade_image(frame, num, den) == [frame |-> frame, faded |-> TRUE, num |-> num, den |-> den]

total_frames == Len(buffer)

\* int(fade_ratio * total_frames)
fade_steps == (fade_ratio * total_frames) \div RatioDen

\* fade_steps if fade_in else 0
fade_in_frames == IF fade_in THEN fade_steps ELSE 0

\* fade_steps if fade_out else total_frames
fade_out_frames == IF fade_out THEN fade_steps ELSE total_frames

\* Lines 52-59: with no effect requested the buffer itself is returned.
fade_video ==
    /\ pc = "idle"
    /\ op' = "fade_video"
    /\ err' = "none"
    /\ fade_t' = 0
    /\ IF ~(fade_in \/ fade_out)
       THEN /\ faded_buffer' = [i \in 1..Len(buffer) |-> Unfaded(buffer[i])]
            /\ pc' = "idle"
       ELSE /\ faded_buffer' = <<>>
            /\ pc' = "fade_loop"
    /\ UNCHANGED <<self, config, cpu_count, objVars, repVars, buffer,
                   fade_ratio, fade_in, fade_out>>

\* Lines 60-69: one frame.  A division by fade_steps = 0 raises
\* ZeroDivisionError.
FadeFrame ==
    /\ pc = "fade_loop"
    /\ fade_t < total_frames
    /\ LET t     == fade_t
           frame == buffer[t + 1]
       IN  IF t < fade_in_frames
           THEN IF fade_steps = 0
                THEN /\ err' = "ZeroDivisionError"
                     /\ pc' = "idle"
                     /\ UNCHANGED <<faded_buffer, fade_t>>
                ELSE /\ faded_buffer' = Append(faded_buffer,
                            fade_image(frame, fade_steps - t, fade_steps))
                     /\ fade_t' = t + 1
                     /\ UNCHANGED <<err, pc>>
           ELSE IF t >= total_frames - fade_out_frames
           THEN IF fade_steps = 0
                THEN /\ err' = "ZeroDivisionError"
                     /\ pc' = "idle"
                     /\ UNCHANGED <<faded_buffer, fade_t>>
                ELSE /\ faded_buffer' = Append(faded_buffer,
                            fade_image(frame, t - (total_frames - fade_out_frames),
                                       fade_steps))
                     /\ fade_t' = t + 1
                     /\ UNCHANGED <<err, pc>>
           ELSE /\ faded_buffer' = Append(faded_buffer, Unfaded(frame))
                /\ fade_t' = t + 1
                /\ UNCHANGED <<err, pc>>
    /\ UNCHANGED <<self, config, cpu_count, op, objVars, repVars, buffer,
                   fade_ratio, fade_in, fade_out>>

\* Line 71: return faded_buffer
FadeReturn ==
    /\ pc = "fade_loop"
    /\ fade_t >= total_frames
    /\ pc' = "idle"
    /\ UNCHANGED <<self, config, cpu_count, op, err, objVars, repVars, vidVars>>

\* A buffer of n distinct frames.
Frames(n) == [i \in 1..n |-> i]

InitVideo ==
    /\ Constructed("AnalysisA", <<>>, [num_processes |-> 1], "png")
    /\ cpu_count = 1
    /\ series = <<>>
    /\ high_limit = NaN
    /\ low_limit = NaN
    /\ eps_per_plot = 1
    /\ Untouched
    /\ \E n \in 0..MaxFrames : buffer = Frames(n)
    /\ fade_ratio \in 0..RatioDen
    /\ fade_in \in BOOLEAN
    /\ fade_out \in BOOLEAN
    /\ fade_t = 0
    /\ faded_buffer = <<>>

NextVideo ==
    \/ fade_video
    \/ FadeFrame
    \/ FadeReturn

SpecVideo == InitVideo /\ [][NextVideo]_vars

----------------------------------------------------------------------------
(* Helpers of the properties *)

\* The episode start indices of the implicit-first-boundary convention.
ConventionStarts(flags) ==
    {0} \cup {t \in 1..(Len(flags) - 1) : flags[t + 1]}

\* The start index of each sub-series of a split, in order.
RECURSIVE StartsFrom(_, _)
StartsFrom(eps, at) ==
    IF eps = <<>> THEN <<>>
    ELSE <<at>> \o StartsFrom(Tail(eps), at + Len(Head(eps)))

Starts(eps) == StartsFrom(eps, 0)

Lengths(eps) == [i \in 1..Len(eps) |-> Len(eps[i])]

Range(s) == {s[i] : i \in 1..Len(s)}

StrictlyIncreasing(s) == \A i \in 1..(Len(s) - 1) : s[i] < s[i + 1]

RECURSIVE Concat(_)
Concat(ss) == IF ss = <<>> THEN <<>> ELSE Head(ss) \o Concat(Tail(ss))

\* The sub-series shown by the panels of the saved figures, in order.
PanelsData == LET ps == Concat(figures) IN [i \in 1..Len(ps) |-> ps[i].ep_data]

CeilDiv(a, b) == (a + b - 1) \div b

PlotCalled == op = "plot"
PlotExited == op = "plot" /\ pc = "idle"
CsvExited == op = "csv" /\ pc = "idle"

----------------------------------------------------------------------------
(* Properties of save / load / _get_mp_pool, checked under Spec *)

\* C1: once save has exited, normally or by raising, self.data is again the
\* record sequence it held before the call, and is not None.
C1_SaveRestoresData ==
    (op = "save" /\ pc = "idle") => (self.data.some /\ self.data = sv_data)

\* C5: the pool _get_mp_pool returns has config.num_processes workers when
\* that count is positive, and the host's core count only otherwise.
C5_PoolSizedFromConfig ==
    [][\A a \in Analyses :
          get_mp_pool(a) =>
             pool'.val.processes =
                (IF config.num_processes > 0 THEN config.num_processes
                                             ELSE cpu_count)]_vars

\* C6: no step changes the configuration object the analyses share, so the
\* sibling always observes the num_processes of construction.
C6_SharedConfigUnchanged == [][config' = config]_vars

\* C10: load applied to the file a successful save has written returns an
\* object of the saving object's class, with its config and img_fmt and with
\* data None; and what load returns is what the archive holds.
C10_SaveLoadRoundTrip ==
    /\ (op = "save" /\ pc = "idle" /\ err = "none") =>
          /\ load(file).err = "none"
          /\ load(file).value.val.cls = self.cls
          /\ load(file).value.val.config = config
          /\ load(file).value.val.img_fmt = self.img_fmt
          /\ load(file).value.val.data = None
          /\ file.bytes[2] = <<"data", None>>
    /\ (op = "load" /\ err = "none") =>
          /\ loaded.some
          /\ loaded.val.data = None
          /\ loaded.val.cls = self.cls
          /\ loaded.val.img_fmt = self.img_fmt
          /\ file.bytes = pickle_dump(loaded.val)

\* A load has returned the object of an archive written after _get_mp_pool
\* ran, from an analysis that holds its records again.
C10_Witness ==
    /\ op = "load"
    /\ err = "none"
    /\ loaded.some
    /\ pool.some
    /\ loaded.val.config = config
    /\ self.data.some
    /\ Len(self.data.val) > 0

----------------------------------------------------------------------------
(* Properties of the report helpers, checked under SpecReport *)

\* C2: for a non-empty record sequence the split of _plot_elements_sp does
\* not raise, and its episode starts are 0 and every later marked index, in
\* increasing order; the 12-record scenario gives [0,1,4,8] and [1,3,4,4].
C2_ImplicitFirstBoundary ==
    (PlotCalled /\ Len(new_episodes) > 0) =>
        /\ err # "ValueError"
        /\ Len(eps_data) > 0
        /\ Starts(eps_data)[1] = 0
        /\ StrictlyIncreasing(Starts(eps_data))
        /\ Range(Starts(eps_data)) = ConventionStarts(new_episodes)
        /\ (new_episodes = Scenario12 =>
               /\ Starts(eps_data) = <<0, 1, 4, 8>>
               /\ Lengths(eps_data) = <<1, 3, 4, 4>>)

\* C3: the table has one row per record; row 0 is (0, 0); a later row opens
\* the next episode at timestep 0 when its record is marked and otherwise
\* continues the previous row's episode; the value column is element_data.
C3_CsvRows ==
    CsvExited =>
        /\ csv_file.some
        /\ LET rows == csv_file.val.rows
           IN  /\ Len(rows) = Len(new_episodes)
               /\ \A t \in 1..Len(rows) :
                     /\ rows[t].value = series[t]
                     /\ t = 1 => (rows[t].Episode = 0 /\ rows[t].Timestep = 0)
                     /\ (t > 1 /\ new_episodes[t]) =>
                           /\ rows[t].Episode = rows[t - 1].Episode + 1
                           /\ rows[t].Timestep = 0
                     /\ (t > 1 /\ ~new_episodes[t]) =>
                           /\ rows[t].Episode = rows[t - 1].Episode
                           /\ rows[t].Timestep = rows[t - 1].Timestep + 1

\* A table of three rows whose first record is unmarked and whose last record
\* opens episode 1.
C3_Witness ==
    /\ CsvExited
    /\ csv_file.some
    /\ Len(csv_file.val.rows) = 3
    /\ ~new_episodes[1]
    /\ csv_file.val.rows[2].Timestep = 1
    /\ csv_file.val.rows[3].Episode = 1

\* C4: once the split has produced E >= 1 episodes, the render completes
\* with ceil(E / eps_per_plot) figures whose panels, in order, are the
\* episodes, each once.
C4_FiguresCoverEpisodes ==
    (PlotExited /\ Len(eps_data) >= 1) =>
        /\ err = "none"
        /\ Len(figures) = CeilDiv(Len(eps_data), eps_per_plot)
        /\ PanelsData = eps_data

\* C7: on an empty record sequence both helpers fail with
\* MalformedSequenceError and write nothing.
C7_EmptySequenceRejected ==
    ((PlotExited \/ CsvExited) /\ Len(new_episodes) = 0) =>
        /\ err = "MalformedSequenceError"
        /\ figures = <<>>
        /\ ~csv_file.some

\* C8: for a non-empty record sequence the split yields one sub-series per
\* episode, of total length len(series), whose concatenation is the series;
\* with no marker after position 0 it yields the whole series alone.
C8_SplitIsPartition ==
    (PlotCalled /\ Len(new_episodes) > 0) =>
        /\ Len(eps_data) = Cardinality(ConventionStarts(new_episodes))
        /\ SumSeq(Lengths(eps_data)) = Len(series)
        /\ Concat(eps_data) = series
        /\ (ConventionStarts(new_episodes) = {0} => eps_data = <<series>>)

\* C9: in every saved panel the marked high points are exactly the local
\* indices at or above a defined high_limit and the marked low points those
\* at or below a defined low_limit; an undefined limit gives no markers and
\* no reference line on its side, and the data line, the mean line and the
\* other side are drawn all the same.
C9_OutlierMarkers ==
    \A f \in 1..Len(figures) : \A p \in 1..Len(figures[f]) :
        LET panel == figures[f][p]
            ep    == panel.ep_data
        IN  /\ {m[1] : m \in Range(panel.highs)} =
                  {t \in 0..(Len(ep) - 1) :
                      ~isnan(high_limit) /\ ep[t + 1] >= high_limit.num}
            /\ {m[1] : m \in Range(panel.lows)} =
                  {t \in 0..(Len(ep) - 1) :
                      ~isnan(low_limit) /\ ep[t + 1] <= low_limit.num}
            /\ \A m \in Range(panel.highs) \cup Range(panel.lows) :
                  m[2] = ep[m[1] + 1]
            /\ Len(panel.highs) = Cardinality(Range(panel.highs))
            /\ Len(panel.lows) = Cardinality(Range(panel.lows))
            /\ (\E l \in Range(panel.hlines) : l[1] = "high") <=> ~isnan(high_limit)
            /\ (\E l \in Range(panel.hlines) : l[1] = "low") <=> ~isnan(low_limit)
            /\ \E l \in Range(panel.hlines) : l[1] = "mean"
            /\ Len(ep) > 0

\* A saved panel marks a point that ties with the high limit while the low
\* limit is undefined.
C9_Witness ==
    /\ PlotExited
    /\ err = "none"
    /\ isnan(low_limit)
    /\ ~isnan(high_limit)
    /\ \E f \in 1..Len(figures) : \E p \in 1..Len(figures[f]) :
          /\ \E m \in Range(figures[f][p].highs) : m[2] = high_limit.num
          /\ figures[f][p].lows = <<>>
          /\ Len(figures[f][p].hlines) = 2

----------------------------------------------------------------------------
(* Property of fade_video, checked under SpecVideo *)

\* C11: fade_video raises nothing (it never divides by a fade_steps of 0),
\* returns the N frames in their order, and passes the frame at index t
\* through fade_image only if (fade_in and t < fade_steps) or
\* (fade_out and t >= N - fade_steps); every other frame is unchanged.
C11_FadeOnlyRequested ==
    op = "fade_video" =>
        /\ err = "none"
        /\ pc = "idle" => Len(faded_buffer) = total_frames
        /\ \A i \in 1..Len(faded_buffer) :
              /\ faded_buffer[i].frame = buffer[i]
              /\ faded_buffer[i].faded =>
                    \/ fade_in /\ (i - 1) < fade_steps
                    \/ fade_out /\ (i - 1) >= total_frames - fade_steps

=============================================================================
